---- MODULE Spec2Model ----
(***************************************************************************)
(* Model of src/main.rs: the two gradient convolutions compute_dx and      *)
(* compute_dy over a flat row-major grid of u8 samples, and the reductions *)
(* get_min / get_max over their i16 results.                               *)
(*                                                                         *)
(* Buffers are TLA+ sequences; the code's 0-based index i is element i+1.  *)
(* A usize index expression is evaluated as an integer: a negative value   *)
(* stands for a usize underflow, which panics in a debug build and wraps   *)
(* to a value >= 2^63 in a release build, where the Vec bounds check then  *)
(* panics; both builds end in a panic, so InBounds treats it as such.      *)
(***************************************************************************)
EXTENDS Integers, Sequences, FiniteSets, TLC

\* ---------------------------------------------------------------- bounds
MaxCells == 6       \* rows * cols of a generated grid is at most this
MaxSlack == 1       \* how far samples.len() may be from rows*cols (SpecMis)

\* ------------------------------------------------------ program constants
U8Max  == 255
U8Mod  == 256
I16Max == 32767
I16Mod == 65536

Vals    == {10, 20, 30, U8Max}       \* sample values drawn for a grid
MisVals == {0, U8Max}                \* sample values drawn in SpecMis

VARIABLES
    arr, rows, cols,      \* the grid: main's arr, rows, cols
    plan,                 \* the calls the driver still has to make
    pc,                   \* "main", "dx_b", "dx_i", "dy_b", "dy_i", "panic", "exit"
    row, col,             \* loop counters of the running function
    buf,                  \* the Vec<i16> the running function is filling
    nw,                   \* nw[i+1]: assignments to buf[i] since allocation
    dx, dy,               \* the returned buffers
    dxWrites, dyWrites,   \* nw at the return of compute_dx / compute_dy
    done,                 \* the functions that have returned
    dxMin, dxMax, dyMin, dyMax

vars == <<arr, rows, cols, plan, pc, row, col, buf, nw, dx, dy,
          dxWrites, dyWrites, done, dxMin, dxMax, dyMin, dyMax>>

\* ------------------------------------------------------------ arithmetic
\* Vec indexing: in range, or panic.
InBounds(i, len) == i >= 0 /\ i < len

\* two's-complement i16 of an integer (wrapping arithmetic)
WrapI16(x) == ((x + I16Max + 1) % I16Mod) - (I16Max + 1)

\* `x as i16` for a u8 x
Widen(x) == WrapI16(x)

\* `-1 * arr[..] as i16`: `as` binds tighter than `*`, so the sample is
\* widened first and the product is taken in i16
NegVal(x) == WrapI16((0 - 1) * Widen(x))

\* the same difference taken in u8 (wrapping) and widened afterwards
SubValU8(a, b) == Widen((a - b) % U8Mod)

\* `arr[..] as i16 - arr[..] as i16`: both samples widened, then subtracted
SubVal(a, b) == WrapI16(Widen(a) - Widen(b))

\* ------------------------------------------------------------ statements
\* One assignment `out[dst] = f(arr[srcs...])` of a loop body.
Copy(d, s)    == [dst |-> d, srcs |-> <<s>>, op |-> "copy"]
Neg(d, s)     == [dst |-> d, srcs |-> <<s>>, op |-> "neg"]
Sub(d, s, t)  == [dst |-> d, srcs |-> <<s, t>>, op |-> "sub"]

StmtOK(s, b) ==
    /\ InBounds(s.dst, Len(b))
    /\ \A k \in 1..Len(s.srcs) : InBounds(s.srcs[k], Len(arr))

AllOK(ss, b) == \A k \in 1..Len(ss) : StmtOK(ss[k], b)

StmtVal(s) ==
    CASE s.op = "copy" -> Widen(arr[s.srcs[1] + 1])
      [] s.op = "neg"  -> NegVal(arr[s.srcs[1] + 1])
      [] s.op = "sub"  -> SubVal(arr[s.srcs[1] + 1], arr[s.srcs[2] + 1])

RECURSIVE Exec(_, _)
Exec(b, ss) ==
    IF ss = <<>> THEN b
    ELSE Exec([b EXCEPT ![Head(ss).dst + 1] = StmtVal(Head(ss))], Tail(ss))

RECURSIVE Count(_, _)
Count(n, ss) ==
    IF ss = <<>> THEN n
    ELSE Count([n EXCEPT ![Head(ss).dst + 1] = @ + 1], Tail(ss))

Zeros(n) == [i \in 1..n |-> 0]

\* ------------------------------------------------------------ compute_dx
NewCols == cols + 2

DxBoundaryMoreShort(r) == r < rows - 1

\* `for row in 0..rows`
DxBoundaryMore(r) == r < rows

DxBoundaryStmtsNoNeg(r) ==
    << Copy(r * NewCols + NewCols - 1, r * cols + cols - 1),
       Copy(r * NewCols, r * cols) >>
    \o (IF cols > 1
        THEN << Copy(r * NewCols + NewCols - 2, r * cols + cols - 2),
                Neg(r * NewCols + 1, r * cols + 1) >>
        ELSE <<>>)

DxBoundaryStmtsFirstCol(r) ==
    << Copy(r * NewCols + NewCols - 1, r * cols + cols - 1),
       Neg(r * NewCols, r * cols) >>
    \o (IF cols > 1
        THEN << Copy(r * NewCols + NewCols - 2, r * cols + cols - 2),
                Neg(r * NewCols + 1, r * cols) >>
        ELSE <<>>)

\* body of the padding loop for one row
DxBoundaryStmts(r) ==
    << Copy(r * NewCols + NewCols - 1, r * cols + cols - 1),
       Neg(r * NewCols, r * cols) >>
    \o (IF cols > 1
        THEN << Copy(r * NewCols + NewCols - 2, r * cols + cols - 2),
                Neg(r * NewCols + 1, r * cols + 1) >>
        ELSE <<>>)

DxInteriorStmtNear(r, c) ==
    << Sub(r * NewCols + 2 + c, r * cols + c, r * cols + c + 1) >>

\* body of the inner loop for one (row, col)
DxInteriorStmt(r, c) ==
    << Sub(r * NewCols + 2 + c, r * cols + c, r * cols + c + 2) >>

\* ------------------------------------------------------------ compute_dy
NewRows == rows + 2

DyBoundaryStmtsForward(c) ==
    << Copy(cols * NewRows - c - 1, cols * (rows - 1) + c),
       Neg(c, c) >>
    \o (IF rows > 1
        THEN << Copy(cols * (NewRows - 1) - c - 1, cols * (rows - 2) + c),
                Neg(cols + c, cols + c) >>
        ELSE <<>>)

\* body of the padding loop for one column
DyBoundaryStmts(c) ==
    << Copy(cols * NewRows - c - 1, cols * rows - c - 1),
       Neg(c, c) >>
    \o (IF rows > 1
        THEN << Copy(cols * (NewRows - 1) - c - 1, cols * (rows - 1) - c - 1),
                Neg(cols + c, cols + c) >>
        ELSE <<>>)

DyInteriorStmtRowUp(r, c) ==
    << Sub((r + 1) * cols + c, r * cols + c, (r + 2) * cols + c) >>

DyInteriorStmtSwapped(r, c) ==
    << Sub((r + 2) * cols + c, (r + 2) * cols + c, r * cols + c) >>

\* body of the inner loop for one (row, col)
DyInteriorStmt(r, c) ==
    << Sub((r + 2) * cols + c, r * cols + c, (r + 2) * cols + c) >>

\* ------------------------------------------------------ get_min / get_max
RECURSIVE FoldMin(_, _)
FoldMin(m, acc) ==
    IF m = <<>> THEN acc
    ELSE FoldMin(Tail(m), IF Head(m) < acc THEN Head(m) ELSE acc)

RECURSIVE FoldMax(_, _)
FoldMax(m, acc) ==
    IF m = <<>> THEN acc
    ELSE FoldMax(Tail(m), IF Head(m) >= acc THEN Head(m) ELSE acc)

GetMinFirst(matrix) == IF Len(matrix) = 0 THEN 0 ELSE Head(matrix)

\* matrix.iter().min(), None => 0
GetMin(matrix) ==
    IF Len(matrix) = 0 THEN 0 ELSE FoldMin(Tail(matrix), Head(matrix))

\* matrix.iter().max(), None => 0
GetMax(matrix) ==
    IF Len(matrix) = 0 THEN 0 ELSE FoldMax(Tail(matrix), Head(matrix))

\* ------------------------------------------------------------- transpose
\* row-major r x c buffer a, transposed to a row-major c x r buffer
Transpose(a, r, c) ==
    [k \in 1..(r * c) |-> a[((k - 1) % r) * c + ((k - 1) \div r) + 1]]

\* ------------------------------------------------------------------ Init
Fresh ==
    /\ pc = "main" /\ row = 0 /\ col = 0
    /\ buf = <<>> /\ nw = <<>>
    /\ dx = <<>> /\ dy = <<>> /\ dxWrites = <<>> /\ dyWrites = <<>>
    /\ done = {}
    /\ dxMin = 0 /\ dxMax = 0 /\ dyMin = 0 /\ dyMax = 0

\* main: rows and cols parsed as usize, arr = construct_randomized_matrix,
\* then compute_dy, compute_dx, and the report
Init ==
    /\ \E r \in 0..MaxCells, c \in 0..MaxCells :
          /\ r * c <= MaxCells
          /\ rows = r /\ cols = c
          /\ arr \in [1..(r * c) -> Vals]
    /\ plan = <<"dy", "dx", "report">>
    /\ Fresh

\* compute_dy on a grid, compute_dx on its transpose
InitT ==
    /\ \E r \in 0..MaxCells, c \in 0..MaxCells :
          /\ r * c <= MaxCells
          /\ rows = r /\ cols = c
          /\ arr \in [1..(r * c) -> Vals]
    /\ plan = <<"dy", "transpose", "dx", "report">>
    /\ Fresh

\* the two functions called, in either order, with samples.len() # rows*cols
InitMis ==
    /\ \E r \in 1..MaxCells, c \in 1..MaxCells :
          /\ r * c <= MaxCells
          /\ rows = r /\ cols = c
          /\ \E n \in (r * c - MaxSlack)..(r * c + MaxSlack) :
                /\ n >= 0 /\ n # r * c
                /\ arr \in [1..n -> MisVals]
    /\ plan \in {<<"dy", "dx", "report">>, <<"dx", "dy", "report">>}
    /\ Fresh

\* --------------------------------------------------------------- actions
Keep == UNCHANGED <<arr, rows, cols>>
KeepOut == UNCHANGED <<dx, dy, dxWrites, dyWrites, done>>
KeepRep == UNCHANGED <<dxMin, dxMax, dyMin, dyMax>>

\* a panic unwinds: the buffer under construction is dropped, main aborts
Panic ==
    /\ pc' = "panic" /\ buf' = <<>> /\ nw' = <<>> /\ row' = 0 /\ col' = 0
    /\ UNCHANGED plan /\ Keep /\ KeepOut /\ KeepRep

\* run the statements ss of one loop body, or panic on the first bad index
\* and move the loop counters on to (r, c)
Body(ss, r, c) ==
    IF AllOK(ss, buf)
    THEN /\ buf' = Exec(buf, ss) /\ nw' = Count(nw, ss)
         /\ row' = r /\ col' = c
         /\ UNCHANGED <<pc, plan>> /\ Keep /\ KeepOut /\ KeepRep
    ELSE Panic

CallComputeDx ==
    /\ pc = "main" /\ plan # <<>> /\ Head(plan) = "dx"
    /\ plan' = Tail(plan)
    /\ buf' = Zeros(rows * NewCols) /\ nw' = Zeros(rows * NewCols)
    /\ row' = 0 /\ col' = 0 /\ pc' = "dx_b"
    /\ Keep /\ KeepOut /\ KeepRep

DxBoundary ==
    /\ pc = "dx_b" /\ DxBoundaryMore(row)
    /\ Body(DxBoundaryStmts(row), row + 1, col)

DxBoundaryEnd ==
    /\ pc = "dx_b" /\ ~DxBoundaryMore(row)
    /\ pc' = "dx_i" /\ row' = 0 /\ col' = 0
    /\ UNCHANGED <<plan, buf, nw>> /\ Keep /\ KeepOut /\ KeepRep

DxInterior ==
    /\ pc = "dx_i" /\ cols > 2 /\ row < rows /\ col < cols - 2
    /\ Body(DxInteriorStmt(row, col), row, col + 1)

DxInnerEnd ==
    /\ pc = "dx_i" /\ cols > 2 /\ row < rows /\ ~(col < cols - 2)
    /\ row' = row + 1 /\ col' = 0
    /\ UNCHANGED <<pc, plan, buf, nw>> /\ Keep /\ KeepOut /\ KeepRep

DxReturn ==
    /\ pc = "dx_i" /\ (~(cols > 2) \/ ~(row < rows))
    /\ dx' = buf /\ dxWrites' = nw /\ done' = done \cup {"dx"}
    /\ buf' = <<>> /\ nw' = <<>> /\ row' = 0 /\ col' = 0 /\ pc' = "main"
    /\ UNCHANGED <<plan, dy, dyWrites>> /\ Keep /\ KeepRep

CallComputeDy ==
    /\ pc = "main" /\ plan # <<>> /\ Head(plan) = "dy"
    /\ plan' = Tail(plan)
    /\ buf' = Zeros(cols * NewRows) /\ nw' = Zeros(cols * NewRows)
    /\ row' = 0 /\ col' = 0 /\ pc' = "dy_b"
    /\ Keep /\ KeepOut /\ KeepRep

DyBoundary ==
    /\ pc = "dy_b" /\ col < cols
    /\ Body(DyBoundaryStmts(col), row, col + 1)

DyBoundaryEnd ==
    /\ pc = "dy_b" /\ ~(col < cols)
    /\ pc' = "dy_i" /\ row' = 0 /\ col' = 0
    /\ UNCHANGED <<plan, buf, nw>> /\ Keep /\ KeepOut /\ KeepRep

DyInterior ==
    /\ pc = "dy_i" /\ rows > 2 /\ row < rows - 2 /\ col < cols
    /\ Body(DyInteriorStmt(row, col), row, col + 1)

DyInnerEnd ==
    /\ pc = "dy_i" /\ rows > 2 /\ row < rows - 2 /\ ~(col < cols)
    /\ row' = row + 1 /\ col' = 0
    /\ UNCHANGED <<pc, plan, buf, nw>> /\ Keep /\ KeepOut /\ KeepRep

DyReturn ==
    /\ pc = "dy_i" /\ (~(rows > 2) \/ ~(row < rows - 2))
    /\ dy' = buf /\ dyWrites' = nw /\ done' = done \cup {"dy"}
    /\ buf' = <<>> /\ nw' = <<>> /\ row' = 0 /\ col' = 0 /\ pc' = "main"
    /\ UNCHANGED <<plan, dx, dxWrites>> /\ Keep /\ KeepRep

\* the "=== Results ===" lines: get_min and get_max of dx and of dy
Report ==
    /\ pc = "main" /\ plan # <<>> /\ Head(plan) = "report"
    /\ dxMin' = GetMin(dx) /\ dxMax' = GetMax(dx)
    /\ dyMin' = GetMin(dy) /\ dyMax' = GetMax(dy)
    /\ plan' = Tail(plan) /\ pc' = "exit"
    /\ UNCHANGED <<row, col, buf, nw>> /\ Keep /\ KeepOut

\* the driver of InitT hands compute_dx the transposed grid
TransposeGrid ==
    /\ pc = "main" /\ plan # <<>> /\ Head(plan) = "transpose"
    /\ arr' = Transpose(arr, rows, cols) /\ rows' = cols /\ cols' = rows
    /\ plan' = Tail(plan)
    /\ UNCHANGED <<pc, row, col, buf, nw>> /\ KeepOut /\ KeepRep

Next ==
    \/ CallComputeDy \/ DyBoundary \/ DyBoundaryEnd
    \/ DyInterior \/ DyInnerEnd \/ DyReturn
    \/ CallComputeDx \/ DxBoundary \/ DxBoundaryEnd
    \/ DxInterior \/ DxInnerEnd \/ DxReturn
    \/ Report

NextT == Next \/ TransposeGrid

Spec    == Init /\ [][Next]_vars
SpecMis == InitMis /\ [][Next]_vars
SpecT   == InitT /\ [][NextT]_vars

\* ------------------------------------------------------------ properties
Grid(r, c) == arr[r * cols + c + 1]          \* sample at row r, column c
DxAt(r, c) == dx[r * (cols + 2) + c + 1]     \* Dx cell at row r, column c
DyAt(r, c) == dy[r * cols + c + 1]           \* Dy cell at row r, column c

DxDone == "dx" \in done /\ rows >= 1 /\ cols >= 1
DyDone == "dy" \in done /\ rows >= 1 /\ cols >= 1

\* C1: for every rows >= 0 and cols >= 0 with samples.len() == rows*cols,
\* neither function fails, compute_dx returns rows*(cols+2) cells and
\* compute_dy returns cols*(rows+2) cells.
C1_NoFailRightLength ==
    /\ pc # "panic"
    /\ "dx" \in done => Len(dx) = rows * (cols + 2)
    /\ "dy" \in done => Len(dy) = cols * (rows + 2)

\* C2: for rows >= 1 and cols > 2, every interior cell of the returned Dx
\* is the signed difference Dx[row][2+c] = Grid[row][c] - Grid[row][c+2],
\* for c in [0, cols-2).
C2_DxInterior ==
    (DxDone /\ cols > 2) =>
        \A r \in 0..(rows - 1), c \in 0..(cols - 3) :
            DxAt(r, 2 + c) = Grid(r, c) - Grid(r, c + 2)

C2_Witness ==
    /\ DxDone /\ rows >= 2 /\ cols > 2
    /\ DxAt(1, 2) = Grid(1, 0) - Grid(1, 2)
    /\ DxAt(1, 2) < 0

\* C3: for rows >= 1 and cols >= 1, in every row of the returned Dx column 0
\* is the negated first grid column and column cols+1 the last grid column;
\* when cols > 1, column 1 is the negated second grid column and column cols
\* the second-to-last grid column.
C3_DxBoundary ==
    DxDone =>
        \A r \in 0..(rows - 1) :
            /\ DxAt(r, 0) = 0 - Grid(r, 0)
            /\ DxAt(r, cols + 1) = Grid(r, cols - 1)
            /\ cols > 1 => /\ DxAt(r, 1) = 0 - Grid(r, 1)
                           /\ DxAt(r, cols) = Grid(r, cols - 2)

C3_Witness ==
    /\ DxDone /\ rows >= 2 /\ cols = 2
    /\ DxAt(1, 0) = 0 - Grid(1, 0) /\ DxAt(1, 1) = 0 - Grid(1, 1)
    /\ DxAt(1, 2) = Grid(1, 0) /\ DxAt(1, 3) = Grid(1, 1)
    /\ Grid(1, 0) # Grid(1, 1)

\* C4: for rows >= 1 and cols >= 1 and every loop column c, the returned Dy
\* has Dy[cols*(rows+2)-c-1] = samples[cols*rows-c-1] and Dy[c] = -samples[c],
\* and when rows > 1 also Dy[cols*(rows+1)-c-1] = samples[cols*(rows-1)-c-1]
\* and Dy[cols+c] = -samples[cols+c]; so for every column j output row rows+1
\* holds Grid[rows-1][j], row 0 holds -Grid[0][j], row rows holds
\* Grid[rows-2][j] and row 1 holds -Grid[1][j].
C4_DyBoundary ==
    DyDone =>
        \A c \in 0..(cols - 1) :
            /\ dy[cols * (rows + 2) - c - 1 + 1] = arr[cols * rows - c - 1 + 1]
            /\ dy[c + 1] = 0 - arr[c + 1]
            /\ DyAt(rows + 1, c) = Grid(rows - 1, c)
            /\ DyAt(0, c) = 0 - Grid(0, c)
            /\ rows > 1 =>
                /\ dy[cols * (rows + 1) - c - 1 + 1]
                      = arr[cols * (rows - 1) - c - 1 + 1]
                /\ dy[cols + c + 1] = 0 - arr[cols + c + 1]
                /\ DyAt(rows, c) = Grid(rows - 2, c)
                /\ DyAt(1, c) = 0 - Grid(1, c)

C4_Witness ==
    /\ DyDone /\ rows >= 2 /\ cols >= 2
    /\ Grid(rows - 1, 0) # Grid(rows - 1, cols - 1)
    /\ Grid(rows - 2, 0) # Grid(rows - 2, cols - 1)
    /\ DyAt(rows + 1, 0) = Grid(rows - 1, 0)
    /\ DyAt(rows, cols - 1) = Grid(rows - 2, cols - 1)

Scenario == rows = 1 /\ cols = 3 /\ arr = <<10, 20, 30>> /\ "dx" \in done

\* C5 as stated: for the 1x3 grid [10, 20, 30] compute_dx returns the five
\* cells -10, -10, -20, 20, 30.
C5_AsStated == Scenario => dx = <<0 - 10, 0 - 10, 0 - 20, 20, 30>>

\* C5: for the 1x3 grid [10, 20, 30] compute_dx returns the five cells
\* -10, -20, -20, 20, 30: index 1 is the negated second column, -20.
C5_Scenario == Scenario => dx = <<0 - 10, 0 - 20, 0 - 20, 20, 30>>

C5_Witness == Scenario /\ Len(dx) = 5 /\ dx[2] = 0 - 20 /\ pc = "exit"

\* C6 as stated: whenever samples.len() # rows*cols, shorter or longer,
\* neither function returns a result buffer.
C6_AsStated == (Len(arr) # rows * cols) => done = {}

\* C6: when samples.len() < rows*cols (rows, cols >= 1) a call of compute_dx
\* or compute_dy panics before it leaves its padding loop and returns
\* nothing; when samples.len() > rows*cols neither function fails and each
\* returns a buffer of its usual length.
C6_Mismatch ==
    /\ Len(arr) < rows * cols =>
          /\ done = {}
          /\ pc \notin {"dx_i", "dy_i", "exit"}
    /\ Len(arr) > rows * cols =>
          /\ pc # "panic"
          /\ "dx" \in done => Len(dx) = rows * (cols + 2)
          /\ "dy" \in done => Len(dy) = cols * (rows + 2)

C6_Witness ==
    /\ Len(arr) < rows * cols /\ Len(arr) >= cols /\ rows >= 2
    /\ pc = "panic" /\ plan = <<"dy", "report">>

\* the exact integer differences a - b of two of the grid's samples or 0
ExactDiffs ==
    LET S == {arr[i] : i \in 1..Len(arr)} \cup {0}
    IN  {a - b : a \in S, b \in S}

\* C7: for rows >= 1 and cols >= 1 every cell of the returned Dx and Dy is
\* an exact integer negation or difference of u8 samples, never one taken
\* modulo 256 or wrapped at 16 bits, and so lies in [-255, 255].
C7_ExactInRange ==
    /\ DxDone => \A i \in 1..Len(dx) :
                    dx[i] \in ExactDiffs /\ dx[i] >= 0 - U8Max /\ dx[i] <= U8Max
    /\ DyDone => \A i \in 1..Len(dy) :
                    dy[i] \in ExactDiffs /\ dy[i] >= 0 - U8Max /\ dy[i] <= U8Max

C7_Witness ==
    /\ DxDone /\ DyDone /\ cols > 2 /\ rows >= 2
    /\ \E i \in 1..Len(dx) : dx[i] = 0 - U8Max
    /\ \E i \in 1..Len(dy) : dy[i] = U8Max
    /\ DxAt(0, 2) = 10 - U8Max
    /\ DxAt(1, 2) = U8Max - 10

Extremes(m, lo, hi) ==
    IF m = <<>>
    THEN lo = 0 /\ hi = 0
    ELSE /\ \E i \in 1..Len(m) : m[i] = lo
         /\ \E i \in 1..Len(m) : m[i] = hi
         /\ \A i \in 1..Len(m) : lo <= m[i] /\ m[i] <= hi
         /\ lo <= hi

\* C8: get_min and get_max of an empty buffer are both 0; of a non-empty
\* buffer get_min is an element <= every element and get_max an element >=
\* every element, so get_min <= get_max.
C8_MinMax ==
    pc = "exit" => Extremes(dx, dxMin, dxMax) /\ Extremes(dy, dyMin, dyMax)

C8_Witness ==
    /\ pc = "exit" /\ dx # <<>> /\ dy # <<>>
    /\ dxMin < dxMax /\ dx[1] # dxMin /\ dx[Len(dx)] # dxMax
    /\ dyMin < dyMax /\ dy[1] # dyMin

\* C9 as stated: in every completed call, for rows >= 1 and cols >= 1, every
\* index of the result buffer is assigned exactly once.
C9_AsStated ==
    /\ DxDone => \A i \in 1..Len(dxWrites) : dxWrites[i] = 1
    /\ DyDone => \A i \in 1..Len(dyWrites) : dyWrites[i] = 1

\* C9: in every completed call, for rows >= 1 and cols >= 1, no index of the
\* result buffer is assigned twice; every index is assigned exactly once when
\* cols >= 2 (compute_dx) or rows >= 2 (compute_dy); when cols == 1 the middle
\* column of Dx, and when rows == 1 the middle row of Dy, is never assigned
\* and keeps its initial 0, the other cells being assigned once.
C9_WrittenOnce ==
    /\ DxDone =>
          /\ Len(dxWrites) = rows * (cols + 2)
          /\ \A r \in 0..(rows - 1), c \in 0..(cols + 1) :
                IF cols = 1 /\ c = 1
                THEN dxWrites[r * (cols + 2) + c + 1] = 0 /\ DxAt(r, c) = 0
                ELSE dxWrites[r * (cols + 2) + c + 1] = 1
    /\ DyDone =>
          /\ Len(dyWrites) = cols * (rows + 2)
          /\ \A r \in 0..(rows + 1), c \in 0..(cols - 1) :
                IF rows = 1 /\ r = 1
                THEN dyWrites[r * cols + c + 1] = 0 /\ DyAt(r, c) = 0
                ELSE dyWrites[r * cols + c + 1] = 1

C9_Witness ==
    /\ DxDone /\ DyDone /\ rows = 1 /\ cols >= 3
    /\ \A c \in 0..(cols - 1) : dyWrites[cols + c + 1] = 0
    /\ \A i \in 1..Len(dxWrites) : dxWrites[i] = 1

\* C10: compute_dy is compute_dx along the other axis: the (rows+2) x cols
\* buffer compute_dy returns for a grid is, cell for cell, the transpose of
\* the buffer compute_dx returns for the transposed grid.  (In SpecT the grid
\* is transposed between the two calls, so rows and cols are those of the
\* transposed grid once both have returned.)
C10_DyIsDxTransposed ==
    done = {"dx", "dy"} => dy = Transpose(dx, rows, cols + 2)

C10_Witness ==
    /\ done = {"dx", "dy"} /\ rows >= 2 /\ cols >= 3
    /\ dy = Transpose(dx, rows, cols + 2)
    /\ dy # dx
    /\ \E i \in 1..Len(dy) : dy[i] < 0

====
